---------------------------- MODULE Spec2Model ----------------------------
(***************************************************************************)
(* Notification store of autopush (tests/db.py): the channel registry row, *)
(* the message rows and the sort-key scheme, over a partition-key /        *)
(* sort-key table with DynamoDB semantics.                                 *)
(*                                                                         *)
(* Text is a sequence of ASCII codes, so that the byte-wise ordering of    *)
(* sort keys, the UUID conversions and the key parsing are computed as the *)
(* code computes them.  An optional value (Python None, or an attribute    *)
(* that an item does not carry) is the empty set, a present value v is {v}.*)
(***************************************************************************)
EXTENDS Integers, Sequences, FiniteSets, TLC

\* ------------------------------------------------------------------ bounds
MaxClock == 2

\* ------------------------------------------------------------------ text
Chr == [sp |-> 32, dash |-> 45, zero |-> 48, nine |-> 57, colon |-> 58,
        semi |-> 59, A |-> 65, F |-> 70, a |-> 97, f |-> 102, z |-> 122]

None == {}

Some(v) == {v}

Val(o) == CHOOSE v \in o : TRUE

Rep(c, n) == [i \in 1..n |-> c]

IsDigit(c) == c >= Chr.zero /\ c <= Chr.nine

IsHexChar(c) == \/ IsDigit(c)
                \/ (c >= Chr.a /\ c <= Chr.f)
                \/ (c >= Chr.A /\ c <= Chr.F)

Lower(c) == IF c >= Chr.A /\ c <= Chr.F THEN c + 32 ELSE c

\* byte-wise string order, as the storage engine compares sort keys
RECURSIVE StrLtFrom(_, _, _)
StrLtFrom(s, t, i) ==
    IF i > Len(s) THEN i <= Len(t)
    ELSE IF i > Len(t) THEN FALSE
    ELSE IF s[i] = t[i] THEN StrLtFrom(s, t, i + 1)
    ELSE s[i] < t[i]

StrLt(s, t) == StrLtFrom(s, t, 1)

StartsWith(s, p) ==
    /\ Len(p) <= Len(s)
    /\ \A i \in 1..Len(p) : s[i] = p[i]

\* str.split(sep): the parts between every occurrence of sep
RECURSIVE SplitFrom(_, _, _, _)
SplitFrom(s, sep, i, cur) ==
    IF i > Len(s) THEN <<cur>>
    ELSE IF s[i] = sep THEN <<cur>> \o SplitFrom(s, sep, i + 1, <<>>)
    ELSE SplitFrom(s, sep, i + 1, Append(cur, s[i]))

\* a split that stops at the second separator and drops what follows
Split_two(s, sep) ==
    IF Len(SplitFrom(s, sep, 1, <<>>)) > 2
    THEN SubSeq(SplitFrom(s, sep, 1, <<>>), 1, 2)
    ELSE SplitFrom(s, sep, 1, <<>>)

Split(s, sep) == SplitFrom(s, sep, 1, <<>>)

\* A timestamp is an unbounded Python int: it is kept as its decimal digits,
\* most significant first, without leading zeros (zero is <<0>>).
Zero == <<0>>

\* numeric order of two such numbers
NumLt(m, n) ==
    \/ Len(m) < Len(n)
    \/ /\ Len(m) = Len(n)
       /\ \E i \in 1..Len(m) : /\ m[i] < n[i]
                               /\ \A j \in 1..(i - 1) : m[j] = n[j]

\* str(n), "{}".format(n)
Dec(n) == [i \in 1..Len(n) |-> Chr.zero + n[i]]

RECURSIVE StripZeros(_)
StripZeros(d) == IF Len(d) > 1 /\ d[1] = 0 THEN StripZeros(Tail(d)) ELSE d

\* a conversion that keeps the digits as written, leading zeros included
ParseInt_unstripped(s) ==
    IF s # <<>> /\ \A i \in 1..Len(s) : IsDigit(s[i])
    THEN Some([i \in 1..Len(s) |-> s[i] - Chr.zero])
    ELSE None

\* int(text) for a text without sign, blank or underscore: None when the
\* text is not a run of decimal digits
ParseInt(s) == IF s # <<>> /\ \A i \in 1..Len(s) : IsDigit(s[i])
               THEN Some(StripZeros([i \in 1..Len(s) |-> s[i] - Chr.zero]))
               ELSE None

\* ------------------------------------------------------------------ UUIDs
\* uuid.UUID(text): the 32 lower-case hex digits, None when text is no UUID
UuidParse(text) ==
    LET h == SelectSeq(text, LAMBDA c : c # Chr.dash)
    IN  IF Len(h) = 32 /\ \A i \in 1..32 : IsHexChar(h[i])
        THEN Some([i \in 1..32 |-> Lower(h[i])])
        ELSE None

\* str(uuid): canonical 8-4-4-4-12 text of the 32 hex digits
UuidStr(h) ==
    SubSeq(h, 1, 8) \o <<Chr.dash>> \o SubSeq(h, 9, 12) \o <<Chr.dash>>
    \o SubSeq(h, 13, 16) \o <<Chr.dash>> \o SubSeq(h, 17, 20)
    \o <<Chr.dash>> \o SubSeq(h, 21, 32)

\* normalize_id(ident): canonical text, None where the code raises ValueError
normalize_id(ident) ==
    IF UuidParse(ident) = None THEN None
    ELSE Some(UuidStr(Val(UuidParse(ident))))

\* ------------------------------------------------------------------ sort keys
\* a parse that takes a key of any other shape as a legacy key, filling in
\* what is missing
parse_sort_key_lenient(sort_key) ==
    LET parts == Split(sort_key, Chr.colon)
    IN  IF StartsWith(sort_key, <<Chr.zero, Chr.zero + 1, Chr.colon>>)
           /\ Len(parts) = 3
        THEN Some([api_ver |-> parts[1], channel_id |-> parts[2],
                   topic |-> Some(parts[3]), message_id |-> None,
                   sortkey_timestamp |-> None])
        ELSE IF StartsWith(sort_key, <<Chr.zero, Chr.zero + 2, Chr.colon>>)
                /\ Len(parts) = 3 /\ ParseInt(parts[2]) # None
        THEN Some([api_ver |-> parts[1], channel_id |-> parts[3],
                   topic |-> None, message_id |-> None,
                   sortkey_timestamp |-> ParseInt(parts[2])])
        ELSE Some([api_ver |-> <<Chr.zero, Chr.zero>>,
                   channel_id |-> parts[1],
                   topic |-> None,
                   message_id |-> IF Len(parts) >= 2 THEN Some(parts[2])
                                  ELSE None,
                   sortkey_timestamp |-> None])

\* WebPushNotification.parse_sort_key: None where the code raises ValueError
\* (a tuple unpacking of the wrong length, or int() of a non-number)
parse_sort_key(sort_key) ==
    LET parts == Split(sort_key, Chr.colon)
    IN  IF StartsWith(sort_key, <<Chr.zero, Chr.zero + 1, Chr.colon>>)
        THEN IF Len(parts) # 3 THEN None
             ELSE Some([api_ver |-> parts[1], channel_id |-> parts[2],
                        topic |-> Some(parts[3]), message_id |-> None,
                        sortkey_timestamp |-> None])
        ELSE IF StartsWith(sort_key, <<Chr.zero, Chr.zero + 2, Chr.colon>>)
        THEN IF Len(parts) # 3 \/ ParseInt(parts[2]) = None THEN None
             ELSE Some([api_ver |-> parts[1], channel_id |-> parts[3],
                        topic |-> None, message_id |-> None,
                        sortkey_timestamp |-> ParseInt(parts[2])])
        ELSE IF Len(parts) # 2 THEN None
             ELSE Some([api_ver |-> <<Chr.zero, Chr.zero>>,
                        channel_id |-> parts[1],
                        topic |-> None, message_id |-> Some(parts[2]),
                        sortkey_timestamp |-> None])

\* width of the zero-padded timestamp of a "02:" sort key
SORTKEY_TS_WIDTH == 19

ZeroPad(s, w) == IF Len(s) >= w THEN s ELSE Rep(Chr.zero, w - Len(s)) \o s

\* WebPushNotification.sort_key: the key a notification is written under.
\* A notification holds its uaid and channel_id as uuid.UUID values, which
\* are represented by their 32 hex digits.
sort_key(n) ==
    LET chid == UuidStr(n.channel_id)
    IN  IF n.legacy
        THEN chid \o <<Chr.colon>> \o Val(n.message_id)
        ELSE IF n.topic # None
        THEN <<Chr.zero, Chr.zero + 1, Chr.colon>> \o chid
             \o <<Chr.colon>> \o Val(n.topic)
        ELSE <<Chr.zero, Chr.zero + 2, Chr.colon>>
             \o ZeroPad(Dec(Val(n.sortkey_timestamp)), SORTKEY_TS_WIDTH)
             \o <<Chr.colon>> \o chid

\* ------------------------------------------------------------------ state
VARIABLES
    table,      \* the message table: primary key -> item
    now,        \* int(time.time())
    key_hash,   \* the module's HMAC key, <<>> when none is configured
    result,     \* the last call, its arguments and what it returned
    held,       \* the notifications the consumer got from its last fetch
    pc,         \* the racing callers: "ready", or "done" / the value returned
    counts,     \* reliability: the hash of milestone counts, state -> count
    expiry,     \* reliability: the sorted set of expirations, key -> score
    locks,      \* reliability: the names of the locks held in the store
    bucket,     \* reliability: the names of the reports in the bucket
    job         \* reliability: where each instance of the job is

vars == <<table, now, key_hash, result, held, pc, counts, expiry, locks, bucket, job>>

\* the state of the reliability job and of its store
reliability == <<counts, expiry, locks, bucket, job>>

\* Max DynamoDB record lifespan (~ 30 days)
MAX_EXPIRY == 2592000

\* Message._max_ttl
max_ttl == MAX_EXPIRY

\* generate_hash: HMAC-SHA256 taken as collision free, kept as its inputs
generate_hash(key, payload) == [key |-> key, msg |-> payload]

\* hasher(uaid): the partition key of a uaid text
hasher(uaid) == IF key_hash # <<>> THEN generate_hash(key_hash, uaid)
                ELSE [key |-> <<>>, msg |-> uaid]

\* _expiry(ttl)
_expiry(ttl) == now + ttl

\* the sort key of the channel metadata row
MetaSortKey == <<Chr.sp>>

Key(pk, sk) == [uaid |-> pk, chidmessageid |-> sk]

\* an item with no attribute but its key
EmptyItem == [chids |-> None, expiry |-> None, current_timestamp |-> None,
              headers |-> None, data |-> None, ttl |-> None,
              timestamp |-> None, updateid |-> None]

HasItem(tbl, k) == k \in DOMAIN tbl

ItemOr(tbl, k) == IF HasItem(tbl, k) THEN tbl[k] ELSE EmptyItem

\* put_item / the write of update_item: the item at k becomes item
PutItem(tbl, k, item) ==
    [x \in (DOMAIN tbl) \cup {k} |-> IF x = k THEN item ELSE tbl[x]]

DeleteItem(tbl, k) == [x \in (DOMAIN tbl) \ {k} |-> tbl[x]]

\* what a call leaves in result
Res(op, uaid, arg) ==
    [op |-> op, uaid |-> uaid, arg |-> arg, raised |-> FALSE,
     bool |-> FALSE, chans |-> {}, pos |-> None, notifs |-> <<>>,
     ret |-> None]

\* ------------------------------------------------------------------ inputs
\* the subscriber, as the 32 hex digits of its UUID
UaidHex == Rep(Chr.a, 32)

\* the texts a caller may hand over for the subscriber: hex and canonical
UaidTexts == {UaidHex, UuidStr(UaidHex)}

ChA == [i \in 1..32 |-> IF i % 2 = 1 THEN Chr.zero ELSE Chr.zero + 1]

ChB == Rep(Chr.a + 1, 32)

ChidHexes == {ChA, ChB}

\* a text that is no UUID
BadId == <<Chr.z, Chr.z>>

\* channel ids as callers write them: canonical, bare hex, malformed
ChidTexts == {UuidStr(ChA), UuidStr(ChB), ChA, BadId}

\* ttl arguments: absent, zero, and longer than the maximum lifespan
TtlArgs == {None, Some(0), Some(MAX_EXPIRY + 1)}

\* ------------------------------------------------------------------ registry
MetaKey(uaid_text) == Key(hasher(uaid_text), MetaSortKey)

\* an update that writes the channel set anew instead of adding to it
register_update_overwrite(tbl, uaid, chid, ttl) ==
    PutItem(tbl, MetaKey(uaid),
            [ItemOr(tbl, MetaKey(uaid)) EXCEPT
               !.chids  = Some({chid}),
               !.expiry = Some(_expiry(ttl))])

\* the update of Message.register_channel: ADD chids, SET expiry
register_update(tbl, uaid, chid, ttl) ==
    LET k   == MetaKey(uaid)
        old == ItemOr(tbl, k)
    IN  PutItem(tbl, k,
                [old EXCEPT
                   !.chids  = Some((IF old.chids = None THEN {}
                                    ELSE Val(old.chids)) \cup {chid}),
                   !.expiry = Some(_expiry(ttl))])

\* a registration that writes the metadata row anew
register_channel_put(uaid, channel_id, ttl) ==
    LET t    == IF ttl = None THEN max_ttl ELSE Val(ttl)
        chid == normalize_id(channel_id)
    IN  /\ IF chid = None
           THEN /\ table' = table
                /\ result' = [Res("register_channel", uaid, channel_id)
                                EXCEPT !.raised = TRUE]
           ELSE /\ table' = PutItem(table, MetaKey(uaid),
                                    [EmptyItem EXCEPT
                                       !.chids  = Some(
                                          (IF ItemOr(table, MetaKey(uaid)).chids = None
                                           THEN {}
                                           ELSE Val(ItemOr(table, MetaKey(uaid)).chids))
                                          \cup {Val(chid)}),
                                       !.expiry = Some(_expiry(t))])
                /\ result' = [Res("register_channel", uaid, Val(chid))
                                EXCEPT !.bool = TRUE]
        /\ UNCHANGED <<now, key_hash>>

\* Message.register_channel
register_channel(uaid, channel_id, ttl) ==
    LET t    == IF ttl = None THEN max_ttl ELSE Val(ttl)
        chid == normalize_id(channel_id)
    IN  /\ IF chid = None
           THEN /\ table' = table
                /\ result' = [Res("register_channel", uaid, channel_id)
                                EXCEPT !.raised = TRUE]
           ELSE /\ table' = register_update(table, uaid, Val(chid), t)
                /\ result' = [Res("register_channel", uaid, Val(chid))
                                EXCEPT !.bool = TRUE]
        /\ UNCHANGED <<now, key_hash>>

\* the update and the return value of Message.unregister_channel
unregister_update(tbl, uaid, chid) ==
    LET k    == MetaKey(uaid)
        old  == ItemOr(tbl, k)
        left == IF old.chids = None THEN {} ELSE Val(old.chids) \ {chid}
    IN  PutItem(tbl, k,
                [old EXCEPT
                   !.chids  = IF left = {} THEN None ELSE Some(left),
                   !.expiry = Some(_expiry(max_ttl))])

\* a return value that only looks whether any channel was stored
unregister_return_nonempty(tbl, uaid, chid) ==
    ItemOr(tbl, MetaKey(uaid)).chids # None

unregister_return(tbl, uaid, chid) ==
    LET chids == ItemOr(tbl, MetaKey(uaid)).chids
    IN  IF chids # None /\ Val(chids) # {} THEN chid \in Val(chids)
        ELSE FALSE

\* Message.unregister_channel
unregister_channel(uaid, channel_id) ==
    LET chid == normalize_id(channel_id)
    IN  /\ IF chid = None
           THEN /\ table' = table
                /\ result' = [Res("unregister_channel", uaid, channel_id)
                                EXCEPT !.raised = TRUE]
           ELSE /\ table' = unregister_update(table, uaid, Val(chid))
                /\ result' = [Res("unregister_channel", uaid, Val(chid))
                                EXCEPT !.bool =
                                    unregister_return(table, uaid, Val(chid))]
        /\ UNCHANGED <<now, key_hash>>

\* the pair Message.all_channels returns for a uaid text that is a UUID
all_channels_ret(tbl, uaid) ==
    LET k == MetaKey(Val(UuidParse(uaid)))
    IN  IF ~HasItem(tbl, k) THEN <<FALSE, {}>>
        ELSE <<TRUE, IF tbl[k].chids = None THEN {} ELSE Val(tbl[k].chids)>>

\* Message.all_channels
all_channels(uaid) ==
    /\ result' = IF UuidParse(uaid) = None
                 THEN [Res("all_channels", uaid, <<>>) EXCEPT !.raised = TRUE]
                 ELSE [Res("all_channels", uaid, <<>>)
                         EXCEPT !.bool  = all_channels_ret(table, uaid)[1],
                                !.chans = all_channels_ret(table, uaid)[2]]
    /\ UNCHANGED <<table, now, key_hash>>

\* Message.save_channels: the storage engine refuses an empty set
save_channels(uaid, channels) ==
    /\ IF channels = {}
       THEN /\ table' = table
            /\ result' = [Res("save_channels", uaid, channels)
                            EXCEPT !.raised = TRUE]
       ELSE /\ table' = PutItem(table, MetaKey(uaid),
                                [EmptyItem EXCEPT
                                   !.chids  = Some(channels),
                                   !.expiry = Some(_expiry(max_ttl))])
            /\ result' = Res("save_channels", uaid, channels)
    /\ UNCHANGED <<now, key_hash>>

\* Message.update_last_message_read; uaid is a uuid.UUID
update_last_message_read(uaid, timestamp) ==
    LET k == MetaKey(uaid)
    IN  /\ table' = PutItem(table, k,
                            [ItemOr(table, k) EXCEPT
                               !.current_timestamp = Some(timestamp),
                               !.expiry = Some(_expiry(max_ttl))])
        /\ result' = [Res("update_last_message_read", uaid, Some(timestamp))
                        EXCEPT !.bool = TRUE]
        /\ UNCHANGED <<now, key_hash>>

\* time passes
Tick ==
    /\ now < MaxClock
    /\ now' = now + 1
    /\ UNCHANGED <<table, key_hash, result, held, pc, reliability>>

\* ------------------------------------------------------------------ messages
\* a WebPushNotification as a caller builds it (source "Direct")
Notification(channel_id, topic, sortkey_timestamp, data, headers, ttl, timestamp, update_id) ==
    [uaid |-> UaidHex, channel_id |-> channel_id, ttl |-> ttl,
     data |-> data, headers |-> headers, timestamp |-> timestamp,
     sortkey_timestamp |-> sortkey_timestamp, topic |-> topic,
     source |-> "Direct", message_id |-> update_id, update_id |-> update_id,
     legacy |-> FALSE]

\* Python truth of an optional text, and of an optional number
TruthyText(o) == o # None /\ Val(o) # ""

TruthyInt(o) == o # None /\ Val(o) # 0

\* Python truth of an optional timestamp
TruthyNum(o) == o # None /\ Val(o) # Zero

Min(x, y) == IF x <= y THEN x ELSE y

MsgKey(n) == Key(hasher(n.uaid), sort_key(n))

\* an item whose expiry takes the ttl as given
store_item_unclamped(n) ==
    [EmptyItem EXCEPT
       !.headers   = n.headers,
       !.ttl       = n.ttl,
       !.timestamp = Some(n.timestamp),
       !.updateid  = n.update_id,
       !.expiry    = Some(_expiry(IF TruthyInt(n.ttl) THEN Val(n.ttl)
                                  ELSE 0)),
       !.data      = IF TruthyText(n.data) THEN n.data ELSE None]

\* the item Message.store_message puts
store_item(n) ==
    [EmptyItem EXCEPT
       !.headers   = n.headers,
       !.ttl       = n.ttl,
       !.timestamp = Some(n.timestamp),
       !.updateid  = n.update_id,
       !.expiry    = Some(_expiry(Min(IF TruthyInt(n.ttl) THEN Val(n.ttl)
                                      ELSE 0, max_ttl))),
       !.data      = IF TruthyText(n.data) THEN n.data ELSE None]

\* Message.store_message
store_message(n) ==
    /\ table' = PutItem(table, MsgKey(n), store_item(n))
    /\ result' = Res("store_message", n.uaid, n)
    /\ UNCHANGED <<now, key_hash>>

\* a delete that only requires the row to exist
delete_expected_any(tbl, n) == HasItem(tbl, MsgKey(n))

\* the condition of the conditional delete: updateid exists with this value
delete_expected(tbl, n) ==
    /\ HasItem(tbl, MsgKey(n))
    /\ tbl[MsgKey(n)].updateid = n.update_id

\* a delete that never states a condition
delete_message_unconditional(n) ==
    /\ table' = DeleteItem(table, MsgKey(n))
    /\ result' = [Res("delete_message", n.uaid, n) EXCEPT !.bool = TRUE]
    /\ UNCHANGED <<now, key_hash>>

\* Message.delete_message
delete_message(n) ==
    /\ IF TruthyText(n.update_id)
       THEN IF delete_expected(table, n)
            THEN /\ table' = DeleteItem(table, MsgKey(n))
                 /\ result' = [Res("delete_message", n.uaid, n)
                                 EXCEPT !.bool = TRUE]
            ELSE /\ table' = table
                 /\ result' = Res("delete_message", n.uaid, n)
       ELSE /\ table' = DeleteItem(table, MsgKey(n))
            /\ result' = [Res("delete_message", n.uaid, n)
                            EXCEPT !.bool = TRUE]
    /\ UNCHANGED <<now, key_hash>>

\* the sort keys of a set, ascending
RECURSIVE SortKeys(_)
SortKeys(S) ==
    IF S = {} THEN <<>>
    ELSE LET m == CHOOSE x \in S : \A y \in S : y = x \/ StrLt(x, y)
         IN  <<m>> \o SortKeys(S \ {m})

\* a query that gives every row, whatever the limit
Take_all(seq, n) == seq

Take(seq, n) == SubSeq(seq, 1, Min(n, Len(seq)))

\* a query that takes the rows of the partition whatever the bound
query_lt_all(tbl, pk, bound, limit) ==
    Take(SortKeys({k.chidmessageid : k \in
                     {x \in DOMAIN tbl : x.uaid = pk}}),
         limit)

\* table.query on a partition, chidmessageid < bound, Limit=limit
query_lt(tbl, pk, bound, limit) ==
    Take(SortKeys({k.chidmessageid : k \in
                     {x \in DOMAIN tbl : x.uaid = pk
                                         /\ StrLt(x.chidmessageid, bound)}}),
         limit)

\* a query from the first row of the partition whatever the bound
query_gt_all(tbl, pk, bound, limit) ==
    Take(SortKeys({k.chidmessageid : k \in
                     {x \in DOMAIN tbl : x.uaid = pk}}),
         limit)

\* table.query on a partition, chidmessageid > bound, Limit=limit
query_gt(tbl, pk, bound, limit) ==
    Take(SortKeys({k.chidmessageid : k \in
                     {x \in DOMAIN tbl : x.uaid = pk
                                         /\ StrLt(bound, x.chidmessageid)}}),
         limit)

\* WebPushNotification.from_message_table on the item at sort key sk:
\* None where the code raises
from_message_table(tbl, uaid, sk) ==
    LET item == tbl[Key(hasher(uaid), sk)]
        info == parse_sort_key(sk)
        ki   == Val(info)
        v12  == ki.api_ver \in {<<Chr.zero, Chr.zero + 1>>,
                                <<Chr.zero, Chr.zero + 2>>}
    IN  IF info = None THEN None
        ELSE IF UuidParse(ki.channel_id) = None THEN None
        ELSE Some([uaid |-> Val(UuidParse(uaid)),
                   channel_id |-> Val(UuidParse(ki.channel_id)),
                   ttl |-> item.ttl, data |-> item.data,
                   headers |-> item.headers,
                   timestamp |-> Val(item.timestamp),
                   sortkey_timestamp |-> ki.sortkey_timestamp,
                   topic |-> ki.topic, source |-> "Stored",
                   message_id |-> IF v12 THEN item.updateid
                                  ELSE ki.message_id,
                   update_id |-> item.updateid,
                   legacy |-> ~v12])

\* a decoding that gives the rows back last first
decode_all_reversed(tbl, uaid, sks) ==
    IF \E i \in 1..Len(sks) : from_message_table(tbl, uaid, sks[i]) = None
    THEN None
    ELSE Some([i \in 1..Len(sks) |->
                 Val(from_message_table(tbl, uaid, sks[Len(sks) + 1 - i]))])

\* the decoded rows, None when decoding one of them raises
decode_all(tbl, uaid, sks) ==
    IF \E i \in 1..Len(sks) : from_message_table(tbl, uaid, sks[i]) = None
    THEN None
    ELSE Some([i \in 1..Len(sks) |->
                 Val(from_message_table(tbl, uaid, sks[i]))])

Tail1(seq) == IF seq = <<>> THEN <<>> ELSE Tail(seq)

\* Message.fetch_messages: <<raised, last_position, notifications>>
fetch_messages_ret(tbl, uaid, limit) ==
    LET results == query_lt(tbl, hasher(uaid),
                            <<Chr.zero, Chr.zero + 2>>, limit)
        first   == tbl[Key(hasher(uaid), results[1])]
        pos     == IF results # <<>> /\ TruthyNum(first.current_timestamp)
                   THEN first.current_timestamp ELSE None
        notifs  == decode_all(tbl, uaid, Tail1(results))
    IN  IF notifs = None THEN <<TRUE, None, <<>> >>
        ELSE <<FALSE, pos, Val(notifs)>>

\* a fetch that removes the rows it read
fetch_messages_consuming(uaid, limit) ==
    LET r == fetch_messages_ret(table, uaid, limit)
    IN  /\ result' = [Res("fetch_messages", uaid, limit)
                        EXCEPT !.raised = r[1], !.pos = r[2], !.notifs = r[3]]
        /\ table' = [k \in {x \in DOMAIN table :
                               \/ x.uaid # hasher(uaid)
                               \/ ~StrLt(x.chidmessageid,
                                         <<Chr.zero, Chr.zero + 2>>)}
                       |-> table[k]]
        /\ UNCHANGED <<now, key_hash>>

\* Message.fetch_messages; uaid is a uuid.UUID
fetch_messages(uaid, limit) ==
    LET r == fetch_messages_ret(table, uaid, limit)
    IN  /\ result' = [Res("fetch_messages", uaid, limit)
                        EXCEPT !.raised = r[1], !.pos = r[2], !.notifs = r[3]]
        /\ UNCHANGED <<table, now, key_hash>>

\* a lower bound that ends right after the timestamp
timestamp_sortkey_inclusive(timestamp) ==
    IF TruthyNum(timestamp)
    THEN <<Chr.zero, Chr.zero + 2, Chr.colon>> \o Dec(Val(timestamp))
         \o <<Chr.colon>>
    ELSE <<Chr.zero, Chr.zero + 1, Chr.semi>>

\* the lower bound Message.fetch_timestamp_messages queries from
timestamp_sortkey(timestamp) ==
    IF TruthyNum(timestamp)
    THEN <<Chr.zero, Chr.zero + 2, Chr.colon>> \o Dec(Val(timestamp))
         \o <<Chr.colon, Chr.z>>
    ELSE <<Chr.zero, Chr.zero + 1, Chr.semi>>

\* the sortkey_timestamp of the last notification that has a true one
RECURSIVE LastPosition(_)
LastPosition(notifs) ==
    IF notifs = <<>> THEN None
    ELSE IF TruthyNum(notifs[Len(notifs)].sortkey_timestamp)
    THEN notifs[Len(notifs)].sortkey_timestamp
    ELSE LastPosition(SubSeq(notifs, 1, Len(notifs) - 1))

\* a fetch that takes last_position from the last row, whatever its kind
fetch_timestamp_messages_ret_lastrow(tbl, uaid, timestamp, limit) ==
    LET sks    == query_gt(tbl, hasher(uaid), timestamp_sortkey(timestamp),
                           limit)
        notifs == decode_all(tbl, uaid, sks)
    IN  IF notifs = None THEN <<TRUE, None, <<>> >>
        ELSE <<FALSE,
               IF Val(notifs) = <<>> THEN None
               ELSE Val(notifs)[Len(Val(notifs))].sortkey_timestamp,
               Val(notifs)>>

\* Message.fetch_timestamp_messages: <<raised, last_position, notifications>>
fetch_timestamp_messages_ret(tbl, uaid, timestamp, limit) ==
    LET sks    == query_gt(tbl, hasher(uaid), timestamp_sortkey(timestamp),
                           limit)
        notifs == decode_all(tbl, uaid, sks)
    IN  IF notifs = None THEN <<TRUE, None, <<>> >>
        ELSE <<FALSE, LastPosition(Val(notifs)), Val(notifs)>>

\* Message.fetch_timestamp_messages; uaid is a uuid.UUID
fetch_timestamp_messages(uaid, timestamp, limit) ==
    LET r == fetch_timestamp_messages_ret(table, uaid, timestamp, limit)
    IN  /\ result' = [Res("fetch_timestamp_messages", uaid, timestamp)
                        EXCEPT !.raised = r[1], !.pos = r[2], !.notifs = r[3]]
        /\ UNCHANGED <<table, now, key_hash>>

\* ------------------------------------------------------------------ callers
\* Every call below is one request to the storage engine, which applies it
\* atomically to one row: concurrent callers are interleavings of the calls.
Racers == {"first", "second"}

Registrar == "registrar"

InitCommon ==
    /\ now = 1
    /\ key_hash \in {<<>>, <<Chr.a>>}
    /\ result = Res("init", <<>>, <<>>)
    /\ held = <<>>
    /\ pc = [p \in Racers \cup {Registrar} |-> "ready"]
    /\ counts = <<>>
    /\ expiry = <<>>
    /\ locks = {}
    /\ bucket = {}
    /\ job = <<>>

Init ==
    /\ InitCommon
    /\ table = [k \in {} |-> EmptyItem]

\* the sets a migration may save
SavedSets == {{UuidStr(ChA)}, {UuidStr(ChA), UuidStr(ChB)}, {}}

Register(U) ==
    /\ \E u \in U, c \in ChidTexts, t \in TtlArgs : register_channel(u, c, t)
    /\ UNCHANGED <<held, pc, reliability>>

Unregister(U) ==
    /\ \E u \in U, c \in ChidTexts : unregister_channel(u, c)
    /\ UNCHANGED <<held, pc, reliability>>

AllChannels(U) ==
    /\ \E u \in U \cup {BadId} : all_channels(u)
    /\ UNCHANGED <<held, pc, reliability>>

SaveChannels(U) ==
    /\ \E u \in U, S \in SavedSets : save_channels(u, S)
    /\ UNCHANGED <<held, pc, reliability>>

\* the channel registry, called with either text of the subscriber
Next ==
    \/ Register(UaidTexts)
    \/ Unregister(UaidTexts)
    \/ AllChannels(UaidTexts)
    \/ SaveChannels(UaidTexts)
    \/ Tick

Spec == Init /\ [][Next]_vars

\* the channel registry, called with the canonical text of the subscriber
NextCanon ==
    \/ Register({UuidStr(UaidHex)})
    \/ Unregister({UuidStr(UaidHex)})
    \/ AllChannels({UuidStr(UaidHex)})
    \/ SaveChannels({UuidStr(UaidHex)})
    \/ Tick

SpecCanon == Init /\ [][NextCanon]_vars

\* the channels stored in the metadata row that calls with this uaid text
\* write to
StoredChids(tbl, uaid) ==
    IF ItemOr(tbl, MetaKey(uaid)).chids = None THEN {}
    ELSE Val(ItemOr(tbl, MetaKey(uaid)).chids)

\* ------------------------------------------------------------------ racing callers
ChC == Rep(Chr.a + 2, 32)

\* two callers unregister ChA while a third registers ChC, in any order;
\* the subscriber starts with no row or with ChA and ChB registered
InitRace ==
    /\ InitCommon
    /\ table \in {[k \in {} |-> EmptyItem],
                  PutItem([k \in {} |-> EmptyItem], MetaKey(UaidHex),
                          [EmptyItem EXCEPT
                             !.chids  = Some({UuidStr(ChA), UuidStr(ChB)}),
                             !.expiry = Some(_expiry(max_ttl))])}

RaceUnregister(p) ==
    /\ pc[p] = "ready"
    /\ unregister_channel(UaidHex, UuidStr(ChA))
    /\ pc' = [pc EXCEPT ![p] = IF result'.bool THEN "true" ELSE "false"]
    /\ UNCHANGED <<held, reliability>>

RaceRegister ==
    /\ pc[Registrar] = "ready"
    /\ \E t \in TtlArgs : register_channel(UaidHex, UuidStr(ChC), t)
    /\ pc' = [pc EXCEPT ![Registrar] = "done"]
    /\ UNCHANGED <<held, reliability>>

NextRace ==
    \/ \E p \in Racers : RaceUnregister(p)
    \/ RaceRegister
    \/ Tick

SpecRace == InitRace /\ [][NextRace]_vars

\* ------------------------------------------------------------------ topic messages
TopicInbox == <<73, 110, 98, 111, 120>>

\* what callers send: data, headers, ttl, creation time and update id
Payloads ==
    {[data |-> Some("A"), headers |-> Some("h1"), ttl |-> Some(0),
      timestamp |-> 1, update_id |-> Some("u1")],
     [data |-> Some("B"), headers |-> None, ttl |-> Some(60),
      timestamp |-> 2, update_id |-> Some("u2")],
     [data |-> None, headers |-> Some("h2"), ttl |-> None,
      timestamp |-> 3, update_id |-> Some("u3")]}

TopicNotifs ==
    {Notification(c, Some(TopicInbox), None, d.data, d.headers, d.ttl,
                  d.timestamp, d.update_id) : c \in ChidHexes, d \in Payloads}

\* a row of the scheme before versioned keys, and the notification it
\* decodes to
LegacyNotif(c) ==
    [Notification(c, None, None, Some("L"), None, Some(60), 1, None)
       EXCEPT !.legacy = TRUE, !.message_id = Some(<<Chr.a + 12>>),
              !.source = "Stored"]

LegacyTable(c) ==
    PutItem([k \in {} |-> EmptyItem],
            Key([key |-> <<>>, msg |-> UaidHex], sort_key(LegacyNotif(c))),
            [EmptyItem EXCEPT !.data = Some("L"), !.ttl = Some(60),
                              !.timestamp = Some(1), !.expiry = Some(61)])

InitMsg ==
    /\ InitCommon
    /\ key_hash = <<>>
    /\ table \in {[k \in {} |-> EmptyItem], LegacyTable(ChA)}

Range(seq) == {seq[i] : i \in 1..Len(seq)}

Limits == {2, 10}

Subscribe ==
    /\ register_channel(UaidHex, UuidStr(ChA), None)
    /\ UNCHANGED <<held, pc, reliability>>

Store ==
    /\ \E n \in TopicNotifs : store_message(n)
    /\ UNCHANGED <<held, pc, reliability>>

\* the consumer reads its topic and legacy backlog
Fetch ==
    /\ \E l \in Limits :
          /\ fetch_messages(UaidHex, l)
          /\ held' = IF result'.raised THEN held ELSE result'.notifs
    /\ UNCHANGED <<pc, reliability>>

\* the consumer acknowledges a notification it holds
Ack ==
    /\ \E n \in Range(held) : delete_message(n)
    /\ UNCHANGED <<held, pc, reliability>>

\* a delete with the update id of a notification as it was sent
Delete ==
    /\ \E n \in TopicNotifs : delete_message(n)
    /\ UNCHANGED <<held, pc, reliability>>

NextMsg ==
    \/ Subscribe
    \/ Store
    \/ Fetch
    \/ Ack
    \/ Delete

SpecMsg == InitMsg /\ [][NextMsg]_vars

\* ------------------------------------------------------------------ timestamped messages
\* 10^18 and 10^18 + 1 (19 digits), 10^19 (20 digits)
T19 == [i \in 1..19 |-> IF i = 1 THEN 1 ELSE 0]

T19b == [i \in 1..19 |-> IF i \in {1, 19} THEN 1 ELSE 0]

T20 == [i \in 1..20 |-> IF i = 1 THEN 1 ELSE 0]

Marks == {Zero, <<5>>, T19, T20}

\* the timestamped notifications sent: two channels share the time T19
TsNotifs ==
    {Notification(ct[1], None, Some(ct[2]), Some("A"), None, Some(60), 1,
                  Some("u1")) :
        ct \in {<<ChA, Zero>>, <<ChA, T19>>, <<ChB, T19>>, <<ChB, T19b>>}}

InitTs ==
    /\ InitCommon
    /\ key_hash = <<>>
    /\ table \in {[k \in {} |-> EmptyItem], LegacyTable(ChB)}

StoreTs ==
    /\ \E n \in TsNotifs : store_message(n)
    /\ UNCHANGED <<held, pc, reliability>>

ReadMark ==
    /\ \E t \in Marks : update_last_message_read(UaidHex, t)
    /\ UNCHANGED <<held, pc, reliability>>

FetchTs ==
    /\ \E t \in {None} \cup {Some(m) : m \in Marks}, l \in Limits :
          fetch_timestamp_messages(UaidHex, t, l)
    /\ UNCHANGED <<held, pc, reliability>>

NextTs ==
    \/ StoreTs
    \/ ReadMark
    \/ FetchTs

SpecTs == InitTs /\ [][NextTs]_vars

\* the watermark stored for the subscriber
Watermark(tbl) == ItemOr(tbl, MetaKey(UaidHex)).current_timestamp

\* ------------------------------------------------------------------ watermark and registry
\* the consumer reads its backlog and its watermark
FetchMark ==
    /\ \E l \in Limits : fetch_messages(UaidHex, l)
    /\ UNCHANGED <<held, pc, reliability>>

\* the watermark and the channel registry share the metadata row
NextMark ==
    \/ ReadMark
    \/ FetchMark
    \/ Register({UaidHex})
    \/ Unregister({UaidHex})
    \/ SaveChannels({UaidHex})
    \/ AllChannels({UaidHex})
    \/ Tick

SpecMark == Init /\ [][NextMark]_vars

\* ------------------------------------------------------------------ sort-key codec
\* "a", "T_1" and "a:b"
Topics == {TopicInbox, <<Chr.a>>, <<84, 95, 49>>, <<Chr.a, Chr.colon, 98>>}

\* 10^19 - 1, the largest timestamp of 19 digits
Nines19 == [i \in 1..19 |-> 9]

Stamps == {Zero, <<5>>, <<1, 0>>, <<4, 2>>, T19, T19b, Nines19, T20}

\* the notifications whose sort key is computed
CodecNotifs ==
    {Notification(c, Some(t), None, None, None, None, 1, None) :
        c \in ChidHexes \cup {ChC}, t \in Topics}
    \cup {Notification(c, None, Some(ts), None, None, None, 1, None) :
            c \in ChidHexes \cup {ChC}, ts \in Stamps}

\* keys as they may be found in the table: "badkey", "a:b:c:d", "01:a",
\* "01:a:b:c", "02:5", "02:x:a", "02::a", "02:5:a:b", "a:m", ":"
RawKeys ==
    {<<98, 97, 100, 107, 101, 121>>,
     <<97, 58, 98, 58, 99, 58, 100>>,
     <<48, 49, 58, 97>>,
     <<48, 49, 58, 97, 58, 98, 58, 99>>,
     <<48, 50, 58, 53>>,
     <<48, 50, 58, 120, 58, 97>>,
     <<48, 50, 58, 58, 97>>,
     <<48, 50, 58, 53, 58, 97, 58, 98>>,
     <<97, 58, 109>>,
     <<58>>}

\* WebPushNotification.sort_key of a notification
EncodeKey ==
    /\ \E n \in CodecNotifs :
          result' = [Res("sort_key", n.uaid, n) EXCEPT !.ret = Some(sort_key(n))]
    /\ UNCHANGED <<table, now, key_hash, held, pc, reliability>>

\* WebPushNotification.parse_sort_key of a key of the table, or of the key
\* just computed
ParseKey ==
    /\ \E k \in RawKeys \cup (IF result.op = "sort_key" THEN result.ret
                               ELSE {}) :
          result' = [Res("parse_sort_key", <<>>, k)
                       EXCEPT !.raised = (parse_sort_key(k) = None),
                              !.ret    = parse_sort_key(k)]
    /\ UNCHANGED <<table, now, key_hash, held, pc, reliability>>

NextCodec ==
    \/ EncodeKey
    \/ ParseKey

SpecCodec == Init /\ [][NextCodec]_vars

\* ------------------------------------------------------------------ months
\* A datetime.date is a record of year, month and day; a datetime.datetime
\* has the hour as well.  The dates used are far from datetime.MINYEAR and
\* datetime.MAXYEAR.
IsLeap(y) == (y % 4 = 0 /\ y % 100 # 0) \/ y % 400 = 0

DaysIn(y, m) == IF m = 2 THEN (IF IsLeap(y) THEN 29 ELSE 28)
                ELSE IF m \in {4, 6, 9, 11} THEN 30 ELSE 31

\* a step that goes from December to January of the same year
Plus14_same_year(d) ==
    IF d.day + 14 <= DaysIn(d.year, d.month)
    THEN [d EXCEPT !.day = d.day + 14]
    ELSE [d EXCEPT !.month = (d.month % 12) + 1,
                   !.day = d.day + 14 - DaysIn(d.year, d.month)]

\* new += datetime.timedelta(days=14)
Plus14(d) ==
    IF d.day + 14 <= DaysIn(d.year, d.month)
    THEN [d EXCEPT !.day = d.day + 14]
    ELSE IF d.month = 12
    THEN [d EXCEPT !.year = d.year + 1, !.month = 1,
                   !.day = d.day + 14 - DaysIn(d.year, d.month)]
    ELSE [d EXCEPT !.month = d.month + 1,
                   !.day = d.day + 14 - DaysIn(d.year, d.month)]

\* a step back that goes from January to December of the same year
Minus14_same_year(d) ==
    IF d.day > 14 THEN [d EXCEPT !.day = d.day - 14]
    ELSE IF d.month = 1
    THEN [d EXCEPT !.month = 12,
                   !.day = d.day - 14 + DaysIn(d.year - 1, 12)]
    ELSE [d EXCEPT !.month = d.month - 1,
                   !.day = d.day - 14 + DaysIn(d.year, d.month - 1)]

\* new -= datetime.timedelta(days=14)
Minus14(d) ==
    IF d.day > 14 THEN [d EXCEPT !.day = d.day - 14]
    ELSE IF d.month = 1
    THEN [d EXCEPT !.year = d.year - 1, !.month = 12,
                   !.day = d.day - 14 + DaysIn(d.year - 1, 12)]
    ELSE [d EXCEPT !.month = d.month - 1,
                   !.day = d.day - 14 + DaysIn(d.year, d.month - 1)]

\* while new.month == last.month: step by 14 days
RECURSIVE MoveOut(_, _, _)
MoveOut(new, month, delta) ==
    IF new.month # month THEN new
    ELSE MoveOut(IF delta < 0 THEN Minus14(new) ELSE Plus14(new), month, delta)

\* for _ in range(n): leave the month of last; last = new
RECURSIVE MoveMonths(_, _, _)
MoveMonths(new, n, delta) ==
    IF n = 0 THEN new
    ELSE MoveMonths(MoveOut(new, new.month, delta), n - 1, delta)

\* get_month(delta), today being the date of the call
get_month(today, delta) ==
    MoveMonths(today, IF delta < 0 THEN 0 - delta ELSE delta, delta)

\* str(i) of a natural number
RECURSIVE Str(_)
Str(i) == IF i < 10 THEN <<Chr.zero + i>>
          ELSE Str(i \div 10) \o <<Chr.zero + (i % 10)>>

\* text.zfill(w)
zfill(s, w) == IF Len(s) >= w THEN s ELSE Rep(Chr.zero, w - Len(s)) \o s

\* the test that writes the month without padding it
has_connected_this_month_unpadded(item, today) ==
    IF ~TruthyNum(item.last_connect) THEN FALSE
    ELSE StartsWith(Dec(Val(item.last_connect)),
                    Str(today.year) \o Str(today.month))

\* has_connected_this_month(item), today being the time of the call
has_connected_this_month(item, today) ==
    IF ~TruthyNum(item.last_connect) THEN FALSE
    ELSE StartsWith(Dec(Val(item.last_connect)),
                    Str(today.year) \o zfill(Str(today.month), 2))

\* random.randint(a, b): any of a, ..., b
randint(a, b) == a..b

\* the values the random part of a last_connect is drawn from
RandomSlots == randint(0, 10)

\* generate_last_connect(), today being the time of the call and r the
\* random number drawn
generate_last_connect(today, r) ==
    Val(ParseInt(Str(today.year) \o zfill(Str(today.month), 2)
                 \o zfill(Str(today.hour), 2) \o zfill(Str(r), 4)))

\* int("%s%s020001" % (day.year, str(day.month).zfill(2))): a last_connect
\* made from the year and month of a date
LastConnectOf(day) ==
    Val(ParseInt(Str(day.year) \o zfill(Str(day.month), 2)
                 \o <<Chr.zero, Chr.zero + 2, Chr.zero, Chr.zero,
                      Chr.zero, Chr.zero + 1>>))

Hours == 0..23

\* the days the calls are made on: every day of February 2024, and the
\* first, the 15th and the last day of every month of 2023, of 2024 and of
\* 2100 (no leap year)
Dates ==
    {[year |-> 2024, month |-> 2, day |-> d] : d \in 1..29}
    \cup {[year |-> y, month |-> m, day |-> d] :
            y \in {2023, 2024, 2100}, m \in 1..12, d \in {1, 15}}
    \cup {[year |-> y, month |-> m, day |-> DaysIn(y, m)] :
            y \in {2023, 2024, 2100}, m \in 1..12}

Deltas == {13, 12, 2, 1, 0, -1, -2, -12, -13}

\* the date is read once, then the helpers are called on that day
InitMonth ==
    /\ InitCommon
    /\ key_hash = <<>>
    /\ table = [k \in {} |-> EmptyItem]

Today ==
    /\ result.op = "init"
    /\ \E d \in Dates : result' = Res("today", <<>>, d)
    /\ UNCHANGED <<table, now, key_hash, held, pc, reliability>>

GetMonth ==
    /\ result.op = "today"
    /\ \E k \in Deltas :
          result' = [Res("get_month", <<>>, [today |-> result.arg, delta |-> k])
                       EXCEPT !.ret = Some(get_month(result.arg, k))]
    /\ UNCHANGED <<table, now, key_hash, held, pc, reliability>>

GenerateLastConnect ==
    /\ result.op = "today"
    /\ \E h \in Hours, r \in RandomSlots :
          LET t == [year |-> result.arg.year, month |-> result.arg.month,
                    day |-> result.arg.day, hour |-> h]
          IN  result' = [Res("generate_last_connect", <<>>,
                             [today |-> t, rand |-> r])
                           EXCEPT !.ret = Some(generate_last_connect(t, r))]
    /\ UNCHANGED <<table, now, key_hash, held, pc, reliability>>

\* the record tested: one without last_connect or with 0, the last_connect
\* just generated, or one made from the month get_month returned
HasConnected ==
    /\ result.op \in {"today", "generate_last_connect", "get_month"}
    /\ \E item \in IF result.op = "today"
                    THEN {[last_connect |-> None], [last_connect |-> Some(Zero)]}
                    ELSE IF result.op = "generate_last_connect"
                    THEN {[last_connect |-> result.ret]}
                    ELSE {[last_connect |-> Some(LastConnectOf(Val(result.ret)))]} :
          LET t == IF result.op = "today" THEN result.arg
                   ELSE result.arg.today
          IN  result' = [Res("has_connected_this_month", <<>>,
                             [today |-> t, item |-> item])
                           EXCEPT !.bool = has_connected_this_month(item, t)]
    /\ UNCHANGED <<table, now, key_hash, held, pc, reliability>>

NextMonth ==
    \/ Today
    \/ GetMonth
    \/ GenerateLastConnect
    \/ HasConnected

SpecMonth == InitMonth /\ [][NextMonth]_vars

\* ------------------------------------------------------------------ the whole store
\* how the storage engine answers a request: it serves it, or refuses it for
\* lack of capacity (ProvisionedThroughputExceededException, a ClientError)
EngineFaults == {"none", "throttled"}

\* Message.delete_message under an answer of the storage engine; ret keeps
\* the fault the engine answered with
delete_message_engine(n, fault) ==
    IF fault = "none" THEN delete_message(n)
    ELSE /\ table' = table
         /\ result' = IF TruthyText(n.update_id)
                      THEN [Res("delete_message", n.uaid, n)
                              EXCEPT !.ret = Some(fault)]
                      ELSE [Res("delete_message", n.uaid, n)
                              EXCEPT !.raised = TRUE, !.ret = Some(fault)]
         /\ UNCHANGED <<now, key_hash>>

\* the notifications sent: a topic one, and a timestamped one with either of
\* two payloads
StoreNotifs ==
    {Notification(ChA, Some(TopicInbox), None, d.data, d.headers, d.ttl,
                  d.timestamp, d.update_id) :
        d \in {p \in Payloads : p.update_id = Some("u1")}}
    \cup {Notification(ChA, None, Some(<<5>>), d.data, d.headers, d.ttl,
                       d.timestamp, d.update_id) :
            d \in {p \in Payloads : p.data # None}}

\* legacy rows of two channels: "0101..." sorts below "02", "bbbb..." above
LegacyRows ==
    PutItem(LegacyTable(ChA),
            Key([key |-> <<>>, msg |-> UaidHex], sort_key(LegacyNotif(ChB))),
            [EmptyItem EXCEPT !.data = Some("L"), !.ttl = Some(60),
                              !.timestamp = Some(1), !.expiry = Some(61)])

InitStore ==
    /\ InitCommon
    /\ key_hash = <<>>
    /\ table \in {[k \in {} |-> EmptyItem], LegacyRows}

\* the sets handed to save_channels: ids in canonical text, and an id as bare
\* hex digits
MigratedSets == {{UuidStr(ChA)}, {ChA}}

\* the registrar notes whether the channel it registered was registered
\* already
RegisterAny ==
    /\ \E c \in {UuidStr(ChA), BadId} :
          /\ register_channel(UaidHex, c, None)
          /\ pc' = [pc EXCEPT ![Registrar] =
                       IF c \in StoredChids(table, UaidHex) THEN "again"
                       ELSE "done"]
    /\ UNCHANGED <<held, reliability>>

UnregisterAny ==
    /\ \E c \in {UuidStr(ChA), BadId} : unregister_channel(UaidHex, c)
    /\ UNCHANGED <<held, pc, reliability>>

SaveAny ==
    /\ \E S \in MigratedSets : save_channels(UaidHex, S)
    /\ UNCHANGED <<held, pc, reliability>>

ListAny ==
    /\ all_channels(UaidHex)
    /\ UNCHANGED <<held, pc, reliability>>

MarkAny ==
    /\ update_last_message_read(UaidHex, <<5>>)
    /\ UNCHANGED <<held, pc, reliability>>

StoreAny ==
    /\ \E n \in StoreNotifs : store_message(n)
    /\ UNCHANGED <<held, pc, reliability>>

DeleteAny ==
    /\ \E n \in {m \in StoreNotifs : m.update_id = Some("u1")}
                  \cup {LegacyNotif(ChA)}, f \in EngineFaults :
          delete_message_engine(n, f)
    /\ UNCHANGED <<held, pc, reliability>>

FetchAny ==
    /\ fetch_messages(UaidHex, 10)
    /\ UNCHANGED <<held, pc, reliability>>

FetchTsAny ==
    /\ \E t \in {None, Some(Zero), Some(<<5>>)} :
          fetch_timestamp_messages(UaidHex, t, 10)
    /\ UNCHANGED <<held, pc, reliability>>

NextStore ==
    \/ RegisterAny
    \/ UnregisterAny
    \/ SaveAny
    \/ ListAny
    \/ MarkAny
    \/ StoreAny
    \/ DeleteAny
    \/ FetchAny
    \/ FetchTsAny

SpecStore == InitStore /\ [][NextStore]_vars

\* ------------------------------------------------------------------ pages of the backlog
\* a channel whose id text begins with "02"
ChD == [i \in 1..32 |-> IF i = 2 THEN Chr.zero + 2 ELSE Chr.zero]

\* the limit the reader asks for
PageLimit == 2

\* legacy rows of three channels: "0101...", "0200..." and "bbbb..."
BacklogRows ==
    PutItem(LegacyRows,
            Key([key |-> <<>>, msg |-> UaidHex], sort_key(LegacyNotif(ChD))),
            [EmptyItem EXCEPT !.data = Some("L"), !.ttl = Some(60),
                              !.timestamp = Some(1), !.expiry = Some(61)])

InitPage ==
    /\ InitCommon
    /\ key_hash = <<>>
    /\ table \in {LegacyTable(ChB), BacklogRows}

\* the notifications sent: a topic one, and timestamped ones at 5 and 10^18
PageNotifs ==
    {Notification(ChA, Some(TopicInbox), None, Some("A"), None, Some(60), 1,
                  None)}
    \cup {Notification(ChA, None, Some(t), Some("A"), None, Some(60), 1,
                       None) : t \in {<<5>>, T19}}

RegisterPage ==
    /\ register_channel(UaidHex, UuidStr(ChA), None)
    /\ UNCHANGED <<held, pc, reliability>>

StorePage ==
    /\ \E n \in PageNotifs : store_message(n)
    /\ UNCHANGED <<held, pc, reliability>>

\* a legacy notification is acknowledged
DeletePage ==
    /\ \E c \in {ChB, ChD} : delete_message(LegacyNotif(c))
    /\ UNCHANGED <<held, pc, reliability>>

FetchPage ==
    /\ fetch_messages(UaidHex, PageLimit)
    /\ UNCHANGED <<held, pc, reliability>>

FetchTsPage ==
    /\ \E t \in {None, Some(<<5>>), Some(T19)} :
          fetch_timestamp_messages(UaidHex, t, PageLimit)
    /\ UNCHANGED <<held, pc, reliability>>

NextPage ==
    \/ RegisterPage
    \/ StorePage
    \/ DeletePage
    \/ FetchPage
    \/ FetchTsPage

SpecPage == InitPage /\ [][NextPage]_vars

\* ------------------------------------------------------------------ expiry of messages
\* the ttl of a notification: absent, zero, a minute, and longer than the
\* maximum lifespan
MessageTtls == {None, Some(0), Some(60), Some(MAX_EXPIRY + 1)}

ExpiryNotifs ==
    {Notification(ChA, Some(TopicInbox), None, Some("A"), None, t, 1, None) :
        t \in MessageTtls}
    \cup {Notification(ChA, None, Some(<<5>>), Some("A"), None, t, 1, None) :
            t \in MessageTtls}

InitExpiry ==
    /\ InitCommon
    /\ key_hash = <<>>
    /\ table = [k \in {} |-> EmptyItem]

StoreExpiry ==
    /\ \E n \in ExpiryNotifs : store_message(n)
    /\ UNCHANGED <<held, pc, reliability>>

NextExpiry ==
    \/ StoreExpiry
    \/ Tick

SpecExpiry == InitExpiry /\ [][NextExpiry]_vars

\* ------------------------------------------------------------------ the reliability job
\* b"#", the separator of the parts of an expiry key
Hash == 35

\* the milestone states of the keys below, "a" and "d"
MilestoneStates == {<<Chr.a>>, <<Chr.a + 3>>}

\* the keys of the expiry table: b"a#1", b"a#2", b"d#1"
ExpiryKeys ==
    {<<Chr.a, Hash, Chr.zero + 1>>, <<Chr.a, Hash, Chr.zero + 2>>,
     <<Chr.a + 3, Hash, Chr.zero + 1>>}

\* key.split(b"#", 2)[0]
KeyState(key) == Split(key, Hash)[1]

\* the two instances of the job that run at a time
Instances == {"job1", "job2"}

\* datetime.now().strftime("%Y-%m-%d"): the runs are made on one day
ReportName == "today"

\* every record has its expiration in the expiry table and is counted under
\* its state; both instances are about to start
InitJob ==
    /\ table = [k \in {} |-> EmptyItem]
    /\ now = 1
    /\ key_hash = <<>>
    /\ result = Res("init", <<>>, <<>>)
    /\ held = <<>>
    /\ pc = [p \in Racers \cup {Registrar} |-> "ready"]
    /\ expiry \in [ExpiryKeys -> 1..MaxClock]
    /\ counts = [s \in MilestoneStates |->
                   Cardinality({k \in ExpiryKeys : KeyState(k) = s})]
    /\ locks = {}
    /\ bucket = {}
    /\ job = [i \in Instances |-> [pc |-> "gc", purged |-> {}, lock |-> None]]

\* redis.zrange(expiry, -1, int(start), byscore=True)
zrange_byscore(zset, lo, hi) ==
    {k \in DOMAIN zset : lo <= zset[k] /\ zset[k] <= hi}

\* the pipeline of Redis.gc: for each purged key, hincrby(counts, state, -1)
\* and zrem(expiry, key), executed as one transaction
pipeline_counts(h, purged) ==
    [s \in DOMAIN h \cup {KeyState(k) : k \in purged} |->
        (IF s \in DOMAIN h THEN h[s] ELSE 0)
        - Cardinality({k \in purged : KeyState(k) = s})]

pipeline_expiry(zset, purged) ==
    [k \in DOMAIN zset \ purged |-> zset[k]]

\* Redis.gc up to the pipeline: start = time.time(), the candidates to purge
GcFetch(i) ==
    /\ job[i].pc = "gc"
    /\ LET purged == zrange_byscore(expiry, -1, now)
       IN  job' = [job EXCEPT ![i].purged = purged,
                              ![i].pc = IF purged = {} THEN "get_lock"
                                        ELSE "gc_execute"]
    /\ UNCHANGED <<table, now, key_hash, result, held, pc>>
    /\ UNCHANGED <<counts, expiry, locks, bucket>>

\* Redis.gc: pipeline.execute()
GcExecute(i) ==
    /\ job[i].pc = "gc_execute"
    /\ counts' = pipeline_counts(counts, job[i].purged)
    /\ expiry' = pipeline_expiry(expiry, job[i].purged)
    /\ job' = [job EXCEPT ![i].pc = "get_lock"]
    /\ UNCHANGED <<table, now, key_hash, result, held, pc>>
    /\ UNCHANGED <<locks, bucket>>

\* Redis.get_lock: the lock is named after the time of the call (kept to the
\* second here) and is acquired when no lock of that name is held; a held
\* lock is kept until it is released
get_lock(i, granted, refused) ==
    LET lock_name == now
    IN  IF lock_name \notin locks
        THEN /\ locks' = locks \cup {lock_name}
             /\ job' = [job EXCEPT ![i].lock = Some(lock_name),
                                   ![i].pc = granted]
        ELSE /\ locks' = locks
             /\ job' = [job EXCEPT ![i].lock = Some(lock_name),
                                   ![i].pc = refused]

\* amain: if await counter.get_lock()
GetLock(i) ==
    /\ job[i].pc = "get_lock"
    /\ get_lock(i, "terminal_snapshot", "done")
    /\ UNCHANGED <<table, now, key_hash, result, held, pc>>
    /\ UNCHANGED <<counts, expiry, bucket>>

\* amain: terminal_snapshot, then the reports of the day are listed
TerminalSnapshot(i) ==
    /\ job[i].pc = "terminal_snapshot"
    /\ job' = [job EXCEPT ![i].pc = IF ReportName \notin bucket
                                    THEN "get_lock_report" ELSE "done"]
    /\ UNCHANGED <<table, now, key_hash, result, held, pc>>
    /\ UNCHANGED <<counts, expiry, locks, bucket>>

\* amain: the second get_lock, before the report is written
GetLockReport(i) ==
    /\ job[i].pc = "get_lock_report"
    /\ get_lock(i, "write_report", "done")
    /\ UNCHANGED <<table, now, key_hash, result, held, pc>>
    /\ UNCHANGED <<counts, expiry, bucket>>

\* amain: write_report and clean_bucket
WriteReport(i) ==
    /\ job[i].pc = "write_report"
    /\ bucket' = bucket \cup {ReportName}
    /\ job' = [job EXCEPT ![i].pc = "release_lock"]
    /\ UNCHANGED <<table, now, key_hash, result, held, pc>>
    /\ UNCHANGED <<counts, expiry, locks>>

\* Redis.release_lock: the lock of the last get_lock is released
ReleaseLock(i) ==
    /\ job[i].pc = "release_lock"
    /\ locks' = locks \ job[i].lock
    /\ job' = [job EXCEPT ![i].pc = "done"]
    /\ UNCHANGED <<table, now, key_hash, result, held, pc>>
    /\ UNCHANGED <<counts, expiry, bucket>>

NextJob ==
    \/ \E i \in Instances : GcFetch(i)
    \/ \E i \in Instances : GcExecute(i)
    \/ \E i \in Instances : GetLock(i)
    \/ \E i \in Instances : TerminalSnapshot(i)
    \/ \E i \in Instances : GetLockReport(i)
    \/ \E i \in Instances : WriteReport(i)
    \/ \E i \in Instances : ReleaseLock(i)
    \/ Tick

SpecJob == InitJob /\ [][NextJob]_vars

\* ------------------------------------------------------------------ properties
\* C1: after store_message of a topic notification the table holds one row
\* for its (channel_id, topic), with the attributes of that write and no
\* data of an earlier write, and fetch_messages then returns exactly one
\* notification for the pair, carrying the payload of that write.
RowsOfPair(tbl, n) ==
    {k \in DOMAIN tbl :
        /\ k.uaid = hasher(n.uaid)
        /\ parse_sort_key(k.chidmessageid) # None
        /\ Val(parse_sort_key(k.chidmessageid)).topic = n.topic
        /\ UuidParse(Val(parse_sort_key(k.chidmessageid)).channel_id)
             = Some(n.channel_id)}

FetchedOfPair(notifs, n) ==
    {i \in 1..Len(notifs) : /\ notifs[i].channel_id = n.channel_id
                            /\ notifs[i].topic = n.topic}

C1_RowIsLastWrite ==
    (result.op = "store_message" /\ result.arg.topic # None) =>
        LET n == result.arg
        IN  /\ RowsOfPair(table, n) = {MsgKey(n)}
            /\ table[MsgKey(n)].data = n.data
            /\ table[MsgKey(n)].headers = n.headers
            /\ table[MsgKey(n)].ttl = n.ttl
            /\ table[MsgKey(n)].timestamp = Some(n.timestamp)
            /\ table[MsgKey(n)].updateid = n.update_id

C1_TopicReplacement ==
    (result.op = "store_message" /\ result.arg.topic # None) =>
        LET n == result.arg
            f == fetch_messages_ret(table, n.uaid, 10)
        IN  /\ C1_RowIsLastWrite
            /\ ~f[1]
            /\ Cardinality(FetchedOfPair(f[3], n)) = 1
            /\ \A i \in FetchedOfPair(f[3], n) :
                  /\ f[3][i].data = n.data
                  /\ f[3][i].update_id = n.update_id

\* C2: delete_message of a notification with an update_id, on a stored row:
\* a different stored update_id gives false and leaves the table as it was,
\* an equal one gives true and removes the row.
C2_ConditionalDelete ==
    [][\A n \in TopicNotifs \cup Range(held) :
          (/\ delete_message(n)
           /\ TruthyText(n.update_id)
           /\ HasItem(table, MsgKey(n)))
          => IF table[MsgKey(n)].updateid # n.update_id
             THEN ~result'.bool /\ table' = table
             ELSE /\ result'.bool
                  /\ ~HasItem(table', MsgKey(n))
                  /\ \A k \in DOMAIN table \ {MsgKey(n)} :
                        HasItem(table', k) /\ table'[k] = table[k]]_vars

C2_Witness ==
    /\ result.op = "delete_message"
    /\ ~result.bool
    /\ TruthyText(result.arg.update_id)
    /\ HasItem(table, MsgKey(result.arg))
    /\ table[MsgKey(result.arg)].updateid # result.arg.update_id
    /\ table[MsgKey(result.arg)].updateid # None

C4_RegisteredIsListed ==
    [][\A c \in ChidTexts, t \in TtlArgs :
          (register_channel(UuidStr(UaidHex), c, t) /\ normalize_id(c) # None)
          => /\ all_channels_ret(table', UuidStr(UaidHex))[1]
             /\ Val(normalize_id(c))
                  \in all_channels_ret(table', UuidStr(UaidHex))[2]
             /\ (\A u \in UaidTexts : ~HasItem(table, MetaKey(u)))
                  => all_channels_ret(table', UuidStr(UaidHex))[2]
                       = normalize_id(c)]_vars

\* C5: after unregister_channel(u, c), all_channels(u) returns a set without
\* c that still holds every other channel registered for u.
C5_UnregisteredIsGone ==
    [][\A u \in UaidTexts, c \in ChidTexts :
          (unregister_channel(u, c) /\ normalize_id(c) # None)
          => /\ Val(normalize_id(c)) \notin all_channels_ret(table', u)[2]
             /\ (StoredChids(table, u) \ normalize_id(c))
                  \subseteq all_channels_ret(table', u)[2]]_vars

\* C6: unregister_channel returns true exactly when the channel was in the
\* stored set just before the update (false when it was absent or there was
\* no row), so of two racing unregister calls at most one returns true, and
\* one does when the channel was registered.
C6_UnregisterReturn ==
    /\ [][\A p \in Racers :
             RaceUnregister(p)
             => (result'.bool
                   <=> (/\ HasItem(table, MetaKey(UaidHex))
                        /\ UuidStr(ChA) \in StoredChids(table, UaidHex)))]_vars
    /\ [](~(pc["first"] = "true" /\ pc["second"] = "true"))

C6_Witness ==
    /\ pc["first"] = "false"
    /\ pc["second"] = "true"
    /\ pc[Registrar] = "done"

\* C7: concurrent register and unregister calls on different channels lose
\* no update: a registered channel is present, an unregistered one absent,
\* and a channel no call touches stays.
C7_NoLostUpdate ==
    /\ [](pc[Registrar] = "done"
            => UuidStr(ChC) \in StoredChids(table, UaidHex))
    /\ [](\A p \in Racers :
            pc[p] # "ready" => UuidStr(ChA) \notin StoredChids(table, UaidHex))
    /\ [][UuidStr(ChB) \in StoredChids(table, UaidHex)
            => UuidStr(ChB) \in StoredChids(table', UaidHex)]_vars

C7_Witness ==
    /\ \A p \in Racers : pc[p] # "ready"
    /\ pc[Registrar] = "done"
    /\ StoredChids(table, UaidHex) = {UuidStr(ChB), UuidStr(ChC)}

\* C8: all_channels(u) returns (false, {}) exactly when the subscriber has
\* no metadata row, and (true, {}) when the row exists and holds no channel.
C8_ExistsIffRow ==
    (result.op = "all_channels" /\ ~result.raised) =>
        /\ result.bool <=> HasItem(table, MetaKey(result.uaid))
        /\ ~result.bool => result.chans = {}
        /\ (/\ HasItem(table, MetaKey(result.uaid))
            /\ StoredChids(table, result.uaid) = {})
             => (result.bool /\ result.chans = {})

\* C9: every row a call writes has expiry <= time of the write +
\* max_retention, whatever ttl the caller passed.
C9_ExpiryCapped ==
    [][\A k \in DOMAIN table' :
          (~HasItem(table, k) \/ table'[k] # table[k])
          => /\ table'[k].expiry # None
             /\ Val(table'[k].expiry) <= now + max_ttl]_vars


C11_FirstRowIsMetadata ==
    \A l \in Limits :
       LET results == query_lt(table, hasher(UaidHex),
                               <<Chr.zero, Chr.zero + 2>>, l)
           f       == fetch_messages_ret(table, UaidHex, l)
       IN  /\ ~f[1]
           /\ \A i \in 1..Len(results) :
                 StartsWith(results[i], <<Chr.zero, Chr.zero + 1, Chr.colon>>)
                 => /\ i > 1
                    /\ \E j \in 1..Len(f[3]) : sort_key(f[3][j]) = results[i]

\* C12: fetch_timestamp_messages returns as last_position the
\* sortkey_timestamp of the last returned row that has one, and None when no
\* returned row has one; legacy rows are returned and leave it unchanged.
PositionOfLast(notifs, pos) ==
    \/ /\ pos = None
       /\ \A i \in 1..Len(notifs) : notifs[i].sortkey_timestamp = None
    \/ \E i \in 1..Len(notifs) :
          /\ notifs[i].sortkey_timestamp # None
          /\ pos = notifs[i].sortkey_timestamp
          /\ \A j \in (i + 1)..Len(notifs) :
                notifs[j].sortkey_timestamp = None

C13_WatermarkKept ==
    [][/\ \A t \in Marks \ {Zero} :
             update_last_message_read(UaidHex, t)
             => /\ \A l \in Limits :
                      fetch_messages_ret(table', UaidHex, l)[2] = Some(t)
                /\ all_channels_ret(table', UaidHex)[2]
                     = all_channels_ret(table, UaidHex)[2]
       /\ (/\ result'.op # "update_last_message_read"
           /\ TruthyNum(Watermark(table)))
          => \A l \in Limits :
                fetch_messages_ret(table', UaidHex, l)[2] = Watermark(table)
      ]_vars

\* C14: parsing the sort key "01:{channel_id}:{topic}" computed for a channel
\* id and a valid topic (one without a colon) returns api_ver "01", the same
\* channel id and the same topic, with message_id and sortkey_timestamp
\* unset.
ValidTopic(t) == \A i \in 1..Len(t) : t[i] # Chr.colon

C14_TopicRoundTrip ==
    [][(/\ result.op = "sort_key"
        /\ result.arg.topic # None
        /\ ValidTopic(Val(result.arg.topic))
        /\ result'.op = "parse_sort_key"
        /\ result'.arg = Val(result.ret))
       => /\ ~result'.raised
          /\ result'.ret
               = Some([api_ver |-> <<Chr.zero, Chr.zero + 1>>,
                       channel_id |-> UuidStr(result.arg.channel_id),
                       topic |-> result.arg.topic,
                       message_id |-> None,
                       sortkey_timestamp |-> None])]_vars

C14_Witness ==
    /\ result.op = "parse_sort_key"
    /\ ~result.raised
    /\ result.arg = <<Chr.zero, Chr.zero + 1, Chr.colon>> \o UuidStr(ChB)
                      \o <<Chr.colon>> \o TopicInbox
    /\ Val(result.ret).topic = Some(TopicInbox)
    /\ Val(result.ret).channel_id = UuidStr(ChB)

\* C15: parsing the key "02:{ts padded to 19 digits}:{channel_id}" of a
\* timestamp ts of at most 19 digits gives sortkey_timestamp = ts and the
\* same channel id, and of two such keys with different timestamps the one
\* with the smaller timestamp is the smaller text.
C15_TimestampRoundTrip ==
    /\ [][(/\ result.op = "sort_key"
            /\ result.arg.sortkey_timestamp # None
            /\ Len(Val(result.arg.sortkey_timestamp)) <= SORTKEY_TS_WIDTH
            /\ result'.op = "parse_sort_key"
            /\ result'.arg = Val(result.ret))
           => /\ ~result'.raised
              /\ Val(result'.ret).sortkey_timestamp
                   = result.arg.sortkey_timestamp
              /\ Val(result'.ret).channel_id
                   = UuidStr(result.arg.channel_id)]_vars
    /\ [][(/\ result.op = "sort_key"
            /\ result'.op = "sort_key"
            /\ result.arg.sortkey_timestamp # None
            /\ result'.arg.sortkey_timestamp # None
            /\ Len(Val(result.arg.sortkey_timestamp)) <= SORTKEY_TS_WIDTH
            /\ Len(Val(result'.arg.sortkey_timestamp)) <= SORTKEY_TS_WIDTH
            /\ result.arg.sortkey_timestamp # result'.arg.sortkey_timestamp)
           => (StrLt(Val(result.ret), Val(result'.ret))
                 <=> NumLt(Val(result.arg.sortkey_timestamp),
                           Val(result'.arg.sortkey_timestamp)))]_vars

C15_Witness ==
    /\ result.op = "parse_sort_key"
    /\ ~result.raised
    /\ result.arg = <<Chr.zero, Chr.zero + 2, Chr.colon>>
                      \o Rep(Chr.zero, 17) \o <<Chr.zero + 4, Chr.zero + 2>>
                      \o <<Chr.colon>> \o UuidStr(ChA)
    /\ Val(result.ret).sortkey_timestamp = Some(<<4, 2>>)

\* C16: parse raises, and returns nothing, for a key without a colon, for
\* an unversioned key with more than one colon, for a key starting with
\* "01:" or "02:" that has not exactly three parts, and for a "02:" key
\* whose timestamp part is not a number.
ColonsAt(k) == {i \in 1..Len(k) : k[i] = Chr.colon}

Versioned(k) ==
    \/ StartsWith(k, <<Chr.zero, Chr.zero + 1, Chr.colon>>)
    \/ StartsWith(k, <<Chr.zero, Chr.zero + 2, Chr.colon>>)

\* the text between the first and the second colon is not a run of digits
StampNotNumeric(k) ==
    LET second == CHOOSE i \in ColonsAt(k) : i > 3 /\ \A j \in ColonsAt(k) :
                                                        j > 3 => i <= j
    IN  \/ second = 4
        \/ \E i \in 4..(second - 1) : ~IsDigit(k[i])

MustFail(k) ==
    \/ ColonsAt(k) = {}
    \/ ~Versioned(k) /\ Cardinality(ColonsAt(k)) > 1
    \/ Versioned(k) /\ Cardinality(ColonsAt(k)) # 2
    \/ /\ StartsWith(k, <<Chr.zero, Chr.zero + 2, Chr.colon>>)
       /\ Cardinality(ColonsAt(k)) = 2
       /\ StampNotNumeric(k)

C16_ParseFails ==
    (result.op = "parse_sort_key" /\ MustFail(result.arg))
    => (result.raised /\ result.ret = None)

C16_Witness ==
    /\ result.op = "parse_sort_key"
    /\ result.arg = <<97, 58, 98, 58, 99, 58, 100>>
    /\ result.raised

\* C17: get_month(12) returns a date in the same month of the next year,
\* whatever the day it is called on, the days of February of a leap year
\* (the 29th too) included.
C17_SameMonthNextYear ==
    (result.op = "get_month" /\ result.arg.delta = 12)
    => /\ Val(result.ret).month = result.arg.today.month
       /\ Val(result.ret).year = result.arg.today.year + 1

C17_Witness ==
    /\ result.op = "get_month"
    /\ result.arg.delta = 12
    /\ result.arg.today = [year |-> 2024, month |-> 2, day |-> 29]
    /\ Val(result.ret).year = 2025
    /\ Val(result.ret).month = 2

\* C18: has_connected_this_month is true exactly when last_connect, written
\* in decimal, begins with the year and the two-digit month of today; it is
\* false without last_connect, true for the value generate_last_connect
\* just returned, and false for a last_connect made from the year and month
\* of get_month(-1).
YearMonthText(t) ==
    <<Chr.zero + (t.year \div 1000), Chr.zero + ((t.year \div 100) % 10),
      Chr.zero + ((t.year \div 10) % 10), Chr.zero + (t.year % 10),
      Chr.zero + (t.month \div 10), Chr.zero + (t.month % 10)>>

C18_ConnectedThisMonth ==
    /\ [](result.op = "has_connected_this_month"
            => /\ result.bool
                    <=> /\ result.arg.item.last_connect # None
                        /\ StartsWith(Dec(Val(result.arg.item.last_connect)),
                                      YearMonthText(result.arg.today))
               /\ result.arg.item.last_connect = None => ~result.bool)
    /\ [][(/\ result.op = "generate_last_connect"
            /\ result'.op = "has_connected_this_month")
           => result'.bool]_vars
    /\ [][(/\ result.op = "get_month"
            /\ result.arg.delta = -1
            /\ result'.op = "has_connected_this_month")
           => ~result'.bool]_vars

C18_Witness ==
    /\ result.op = "has_connected_this_month"
    /\ result.bool
    /\ result.arg.today.month = 1
    /\ "hour" \in DOMAIN result.arg.today
    /\ result.arg.item.last_connect
         = Some(generate_last_connect(result.arg.today, 10))

\* C19: for the year and month of a call, generate_last_connect can return
\* exactly 240 values.
LastConnects(t) ==
    {generate_last_connect([t EXCEPT !.hour = h], r) :
        h \in Hours, r \in RandomSlots}

C19_TwoHundredForty ==
    result.op = "generate_last_connect"
    => Cardinality(LastConnects(result.arg.today)) = 240

\* C20: every operation addresses the partition key of the subscriber that
\* the message operations address (hasher of the hex text of the UAID), so
\* a row one operation writes is one the others read: every row of the table
\* lies in that partition.
C20_OnePartition ==
    \A k \in DOMAIN table : k.uaid = hasher(UaidHex)


\* ------------------------------------------------------------------ the whole store: properties
IsTopicKey(sk) == StartsWith(sk, <<Chr.zero, Chr.zero + 1, Chr.colon>>)

IsTimestampKey(sk) == StartsWith(sk, <<Chr.zero, Chr.zero + 2, Chr.colon>>)

IsLegacyKey(sk) == sk # MetaSortKey /\ ~IsTopicKey(sk) /\ ~IsTimestampKey(sk)

\* the rows of the subscriber's partition
Partition(tbl) == {k \in DOMAIN tbl : k.uaid = hasher(UaidHex)}

\* every row of the partition but the metadata row
NotifRows(tbl) == {k \in Partition(tbl) : k.chidmessageid # MetaSortKey}

\* C21: a notification row that is no topic row is never changed in place:
\* while it stays in the table, every step leaves its attributes as they
\* were.
C21_NonTopicRowsImmutable ==
    [][\A k \in NotifRows(table) :
          (~IsTopicKey(k.chidmessageid) /\ k \in DOMAIN table')
              => table'[k] = table[k]]_vars

\* C22: when the storage engine refuses a delete_message request for lack of
\* capacity, the call raises; it does not return.
C22_EngineFaultSurfaced ==
    (result.op = "delete_message" /\ result.ret = Some("throttled"))
        => result.raised

\* C23: after save_channels(u, S) for a subscriber written in canonical
\* text, all_channels(u) returns (true, S).
C23_SaveThenList ==
    [][\A S \in SavedSets \ {{}} :
          save_channels(UuidStr(UaidHex), S)
              => all_channels_ret(table', UuidStr(UaidHex)) = <<TRUE, S>>]_vars

\* C24: register_channel of a channel that is registered already returns
\* true and leaves the channel set, the watermark and every notification row
\* as they were; of the metadata row only the expiry changes.
C24_RegisterAgain ==
    [][(/\ UuidStr(ChA) \in StoredChids(table, UaidHex)
        /\ register_channel(UaidHex, UuidStr(ChA), None))
          => /\ result'.bool /\ ~result'.raised
             /\ StoredChids(table', UaidHex) = StoredChids(table, UaidHex)
             /\ Watermark(table') = Watermark(table)
             /\ DOMAIN table' = DOMAIN table
             /\ \A k \in NotifRows(table) : table'[k] = table[k]
             /\ table'[MetaKey(UaidHex)] =
                  [table[MetaKey(UaidHex)]
                     EXCEPT !.expiry = Some(_expiry(max_ttl))]]_vars

\* a registered channel was registered again while a watermark and
\* notification rows were stored
C24_Witness ==
    /\ result.op = "register_channel"
    /\ result.bool
    /\ pc[Registrar] = "again"
    /\ Watermark(table) = Some(<<5>>)
    /\ \E k \in NotifRows(table) : IsTopicKey(k.chidmessageid)
    /\ \E k \in NotifRows(table) : IsTimestampKey(k.chidmessageid)

\* C25: fetch_messages and fetch_timestamp_messages leave the table as it
\* was, and the same fetch made again returns the same position and the
\* same notifications.
C25_FetchReadsOnly ==
    [][(/\ result'.op \in {"fetch_messages", "fetch_timestamp_messages"}
        /\ result' # result)
          => /\ table' = table
             /\ result'.op = "fetch_messages"
                  => fetch_messages_ret(table', UaidHex, result'.arg)
                       = <<result'.raised, result'.pos, result'.notifs>>
             /\ result'.op = "fetch_timestamp_messages"
                  => fetch_timestamp_messages_ret(table', UaidHex,
                                                  result'.arg,
                                                  Cardinality(DOMAIN table') + 1)
                       = <<result'.raised, result'.pos, result'.notifs>>]_vars

\* a fetch returned a notification and its row is still stored
C25_Witness ==
    /\ result.op = "fetch_messages"
    /\ ~result.raised
    /\ \E i \in 1..Len(result.notifs) :
          /\ result.notifs[i].topic = Some(TopicInbox)
          /\ HasItem(table, MsgKey(result.notifs[i]))

\* C26: every channel id in a stored channel set is in canonical text.
C26_StoredIdsCanonical ==
    \A k \in DOMAIN table :
        table[k].chids # None
            => \A c \in Val(table[k].chids) : normalize_id(c) = Some(c)

\* C27: a step of any operation but update_last_message_read leaves the
\* subscriber's watermark as it was.
C27_OnlyMarkMovesWatermark ==
    [][result'.op # "update_last_message_read"
          => Watermark(table') = Watermark(table)]_vars

\* C28: a metadata row comes into existence only by register_channel or
\* save_channels.
C28_RowCreatedByRegistration ==
    [][\A k \in DOMAIN table' \ DOMAIN table :
          k.chidmessageid = MetaSortKey
              => result'.op \in {"register_channel", "save_channels"}]_vars

\* C29: every legacy row and every topic row has a sort key below "02".
C29_LegacyAndTopicBelow02 ==
    \A k \in NotifRows(table) :
        (IsLegacyKey(k.chidmessageid) \/ IsTopicKey(k.chidmessageid))
            => StrLt(k.chidmessageid, <<Chr.zero, Chr.zero + 2>>)

\* C29, amended: every topic row is in the range fetch_messages queries; a
\* legacy row is in that range exactly when the text of its channel id
\* begins with "00" or "01".
C29_TopicBelow02LegacyByPrefix ==
    LET range == Range(query_lt(table, hasher(UaidHex),
                                <<Chr.zero, Chr.zero + 2>>,
                                Cardinality(DOMAIN table)))
    IN  \A k \in NotifRows(table) :
          LET sk == k.chidmessageid
          IN  /\ IsTopicKey(sk) => sk \in range
              /\ IsLegacyKey(sk)
                   => (sk \in range
                         <=> /\ sk[1] = Chr.zero
                             /\ sk[2] \in {Chr.zero, Chr.zero + 1})

\* fetch_messages read a table with a topic row and legacy rows of two
\* channels, and returned the topic notification and one legacy one
C29_Witness ==
    /\ result.op = "fetch_messages"
    /\ ~result.raised
    /\ HasItem(table, MsgKey(LegacyNotif(ChA)))
    /\ HasItem(table, MsgKey(LegacyNotif(ChB)))
    /\ \E k \in NotifRows(table) : IsTopicKey(k.chidmessageid)
    /\ \E i \in 1..Len(result.notifs) : result.notifs[i].topic # None
    /\ \A i \in 1..Len(result.notifs) :
          result.notifs[i].channel_id # ChB

\* C30: fetch_timestamp_messages without a watermark (None or 0) queries
\* above "01;": the metadata row and the topic rows are out of the range,
\* every "02:" row is in it, and no topic notification is returned.
C30_NoWatermarkRange ==
    (result.op = "fetch_timestamp_messages" /\ ~TruthyNum(result.arg)) =>
        LET bound == timestamp_sortkey(result.arg)
            range == Range(query_gt(table, hasher(UaidHex), bound,
                                    Cardinality(DOMAIN table)))
        IN  /\ bound = <<Chr.zero, Chr.zero + 1, Chr.colon + 1>>
            /\ MetaSortKey \notin range
            /\ \A k \in NotifRows(table) :
                  /\ IsTopicKey(k.chidmessageid)
                       => k.chidmessageid \notin range
                  /\ IsTimestampKey(k.chidmessageid)
                       => k.chidmessageid \in range
            /\ \A i \in 1..Len(result.notifs) :
                  result.notifs[i].topic = None

\* a fetch with watermark 0 read a table holding the metadata row, a topic
\* row and a timestamped row, and returned the timestamped notification
C30_Witness ==
    /\ result.op = "fetch_timestamp_messages"
    /\ result.arg = Some(Zero)
    /\ ~result.raised
    /\ HasItem(table, MetaKey(UaidHex))
    /\ \E k \in NotifRows(table) : IsTopicKey(k.chidmessageid)
    /\ \E i \in 1..Len(result.notifs) :
          result.notifs[i].sortkey_timestamp = Some(<<5>>)


\* ------------------------------------------------------------------ reading on from a watermark
\* the timestamped notifications stored for the subscriber
StoredTimestamped(tbl) ==
    {k \in Partition(tbl) :
        /\ IsTimestampKey(k.chidmessageid)
        /\ parse_sort_key(k.chidmessageid) # None}

KeyTimestamp(k) == Val(Val(parse_sort_key(k.chidmessageid)).sortkey_timestamp)

\* C31: fetch_timestamp_messages(u, ts, limit) with a watermark ts that
\* returns fewer notifications than the limit returns every stored
\* timestamped notification whose sortkey_timestamp is greater than ts.
C31_NoUnreadSkipped ==
    (/\ result.op = "fetch_timestamp_messages"
     /\ ~result.raised
     /\ TruthyNum(result.arg)
     /\ \A l \in Limits : Len(result.notifs) < l)
    => \A k \in StoredTimestamped(table) :
          NumLt(Val(result.arg), KeyTimestamp(k))
          => \E i \in 1..Len(result.notifs) :
                sort_key(result.notifs[i]) = k.chidmessageid


\* the positions of the timestamped notifications in a fetched list
Timestamped(notifs) ==
    {i \in 1..Len(notifs) : notifs[i].sortkey_timestamp # None}

InTimestampOrder(notifs) ==
    \A i, j \in Timestamped(notifs) :
        i < j => ~NumLt(Val(notifs[j].sortkey_timestamp),
                        Val(notifs[i].sortkey_timestamp))

\* pos is the largest sortkey_timestamp among the notifications
IsLargest(notifs, pos) ==
    \E i \in Timestamped(notifs) :
        /\ notifs[i].sortkey_timestamp = pos
        /\ \A j \in Timestamped(notifs) :
              ~NumLt(Val(pos), Val(notifs[j].sortkey_timestamp))

LegacyWithoutWatermark(tbl) ==
    {sk \in Range(query_gt(tbl, hasher(UaidHex), timestamp_sortkey(None),
                           Cardinality(DOMAIN tbl))) : IsLegacyKey(sk)}

\* C33: a fetch_timestamp_messages with a watermark that does not reach its
\* limit returns every stored legacy row that a fetch without a watermark
\* returns.
C33_LegacyNeverHidden ==
    (/\ result.op = "fetch_timestamp_messages"
     /\ ~result.raised
     /\ TruthyNum(result.arg)
     /\ Len(result.notifs) < PageLimit)
    => \A sk \in LegacyWithoutWatermark(table) :
          \E i \in 1..Len(result.notifs) : sort_key(result.notifs[i]) = sk

\* C34: store_message writes expiry = now + min(ttl, max_ttl), a ttl of
\* None or 0 counting as 0, and stores the ttl as the caller gave it.
C34_ExpiryClamped ==
    [][\A n \in ExpiryNotifs :
          store_message(n)
            => /\ table'[MsgKey(n)].expiry =
                    Some(IF n.ttl = None \/ n.ttl = Some(0) THEN now
                         ELSE IF Val(n.ttl) > MAX_EXPIRY THEN now + MAX_EXPIRY
                         ELSE now + Val(n.ttl))
               /\ table'[MsgKey(n)].ttl = n.ttl]_vars

\* a notification with a ttl above the maximum was stored after the clock
\* moved: the row has the maximum lifespan and the ttl as given
C34_Witness ==
    /\ result.op = "store_message"
    /\ now = MaxClock
    /\ result.arg.ttl = Some(MAX_EXPIRY + 1)
    /\ table[MsgKey(result.arg)].expiry = Some(MaxClock + MAX_EXPIRY)
    /\ table[MsgKey(result.arg)].ttl = Some(MAX_EXPIRY + 1)
    /\ \E k \in DOMAIN table : table[k].ttl = None /\ table[k].expiry = Some(1)

\* C36: fetch_timestamp_messages returns at most limit notifications, and
\* fetch_messages at most limit, at most limit - 1 when the metadata row
\* exists.
C36_AtMostLimit ==
    /\ (result.op = "fetch_timestamp_messages"
          => Len(result.notifs) <= PageLimit)
    /\ (result.op = "fetch_messages"
          => /\ Len(result.notifs) <= result.arg
             /\ HasItem(table, MetaKey(UaidHex))
                  => Len(result.notifs) <= result.arg - 1)

\* a fetch_messages met its limit: the metadata row and two more rows are
\* below "02" and one notification came back
C36_Witness ==
    /\ result.op = "fetch_messages"
    /\ ~result.raised
    /\ HasItem(table, MetaKey(UaidHex))
    /\ Len(query_lt(table, hasher(UaidHex), <<Chr.zero, Chr.zero + 2>>,
                    Cardinality(DOMAIN table))) >= 3
    /\ Len(result.notifs) = result.arg - 1

\* ------------------------------------------------------------------ legacy keys
HasColon(s) == \E i \in 1..Len(s) : s[i] = Chr.colon

FirstColon(s) ==
    CHOOSE i \in 1..Len(s) :
        s[i] = Chr.colon /\ \A j \in 1..(i - 1) : s[j] # Chr.colon

C37_WatermarkNeverDecreases ==
    [][(/\ result'.op = "update_last_message_read"
        /\ Watermark(table) # None
        /\ Watermark(table') # None)
          => ~NumLt(Val(Watermark(table')), Val(Watermark(table)))]_vars

\* year * 12 + month of a date
MonthIndex(d) == d.year * 12 + d.month

\* C38: get_month(delta) returns a date whose year * 12 + month is that of
\* the day of the call plus delta, and get_month(0) returns that day.
C38_MonthsMoved ==
    result.op = "get_month"
    => /\ MonthIndex(Val(result.ret))
            = MonthIndex(result.arg.today) + result.arg.delta
       /\ result.arg.delta = 0 => Val(result.ret) = result.arg.today

\* get_month went 13 months back from the last day of a month and 13 months
\* on from it
C38_Witness ==
    /\ result.op = "get_month"
    /\ result.arg.delta \in {-13, 13}
    /\ result.arg.today.day = 31
    /\ Val(result.ret).year # result.arg.today.year


\* ------------------------------------------------------------------ the reliability job: properties
\* an instance is in terminal_snapshot or writes the report
InLockedPart(i) == job[i].pc \in {"terminal_snapshot", "write_report"}

\* C39: two instances of the job are never in terminal_snapshot or in the
\* writing of the report at the same time.
C39_MutualExclusion ==
    \A i, j \in DOMAIN job : (InLockedPart(i) /\ InLockedPart(j)) => i = j

\* C40: the count of every state is the number of entries of that state in
\* the expiry table: gc lowers it by one for each entry it removes, once.
C40_CountedOnce ==
    \A s \in DOMAIN counts :
        counts[s] = Cardinality({k \in DOMAIN expiry : KeyState(k) = s})

=============================================================================
